---- MODULE Spec2Model ----
(***************************************************************************)
(* Verification model of samihsq/re-search.                                *)
(*                                                                         *)
(* The parts of the repository that are modelled, each with its own        *)
(* specification over its own variables (the others stay idle):            *)
(*   SpecMigration  migrations/supabase_complete_fresh_migration.sql       *)
(*   SpecApi        frontend/src/services/api.ts (ApiService)              *)
(*   SpecEnhanced   components/ResearchOpportunities.tsx                   *)
(*                  (EnhancedResearchOpportunities) + EnhancedSearch.tsx   *)
(*   SpecSimple     components/SimpleResearchOpportunities.tsx             *)
(*   SpecSearchVector  migrations/supabase_add_full_text_search.sql and    *)
(*                  backend/migrations/add_full_text_search.sql            *)
(*   SpecContentHash   generate_opportunity_content_hash, on two records   *)
(*   SpecResultLimit   the Result Limit fields of EnhancedSearch.tsx       *)
(***************************************************************************)
EXTENDS Integers, Sequences, FiniteSets, TLC

VARIABLES
    db,        \* the opportunities table: [cols, rows], or in SpecSearchVector
               \* [rows, search_vector_column, trigger], in SpecContentHash
               \* the two records hashed: [first, second]
    mig,       \* position of the migration script: [pc, processed, total_rows, run, fresh],
               \* or in SpecSearchVector [pc, script, scripts, ran, written],
               \* in SpecContentHash the two hashes: [first_hash, second_hash]
    api,       \* ApiService: [call, llmLog] the last call and the last two llmSearch requests
    ero,       \* state of EnhancedResearchOpportunities (the useState cells)
    es,        \* state of EnhancedSearch (the useState cells)
    eNet,      \* requests of the enhanced page in flight
    eObs,      \* the search results handed to the enhanced page and not yet replaced by the user
    simple,    \* state of SimpleResearchOpportunities (the useState cells and the input ref)
    sNet,      \* requests of the simple page in flight
    sObs       \* what the last step of the simple page was: [event, page, sent]

migVars == <<db, mig>>
apiVars == <<api>>
enhancedVars == <<ero, es, eNet, eObs>>
simpleVars == <<simple, sNet, sObs>>
vars == <<db, mig, api, ero, es, eNet, eObs, simple, sNet, sObs>>

(***************************************************************************)
(* Values.  A column or a JavaScript value is a record tagged by its one   *)
(* field, so that values of different types can be compared.               *)
(***************************************************************************)
Null == [null |-> TRUE]
Text(s) == [text |-> s]          \* s: a sequence of one-character strings
Str(s) == [str |-> s]            \* an enumerated string ('active', a timestamp's name)
Num(n) == [num |-> n]
Bool(b) == [bool |-> b]
IsNull(v) == v = Null

Min(a, b) == IF a <= b THEN a ELSE b
Max(a, b) == IF a >= b THEN a ELSE b

(***************************************************************************)
(* SQL string functions, on sequences of characters.                       *)
(***************************************************************************)
UpperToLower == [c \in {"A", "B", "X"} |-> CASE c = "A" -> "a" [] c = "B" -> "b" [] c = "X" -> "x"]

LowerChar(c) == IF c \in DOMAIN UpperToLower THEN UpperToLower[c] ELSE c

\* LOWER(s)
SqlLower(s) == [i \in 1..Len(s) |-> LowerChar(s[i])]

RECURSIVE LTrim(_)
LTrim(s) == IF s # <<>> /\ Head(s) = " " THEN LTrim(Tail(s)) ELSE s

RECURSIVE RTrim(_)
RTrim(s) == IF s # <<>> /\ s[Len(s)] = " " THEN RTrim(SubSeq(s, 1, Len(s) - 1)) ELSE s

\* TRIM(s): strips the spaces at both ends
SqlTrim(s) == RTrim(LTrim(s))

\* LEFT(s, n), n >= 0
SqlLeft(s, n) == SubSeq(s, 1, Min(n, Len(s)))

\* COALESCE(v, '') of a text column, as a character sequence
CoalesceText(v) == IF IsNull(v) THEN <<>> ELSE v.text

\* COALESCE(a, b, c)
Coalesce3(a, b, c) == IF ~IsNull(a) THEN a ELSE IF ~IsNull(b) THEN b ELSE c

\* COALESCE(a, b)
Coalesce2(a, b) == IF ~IsNull(a) THEN a ELSE b

RECURSIVE ConcatAll(_)
ConcatAll(parts) == IF parts = <<>> THEN <<>> ELSE Head(parts) \o ConcatAll(Tail(parts))

DescriptionPrefix == 500
TitlePrefix == 100
DomainFallbackPrefix == 50
GroupIdLength == 16

\* A variant of generate_opportunity_content_hash without LOWER on the title
content_hash_keeping_case(p_title, p_description, p_department, p_source_url, p_deadline, p_funding_amount) ==
    [sha256 |-> ConcatAll(<<
        SqlTrim(CoalesceText(p_title)), <<"|">>,
        SqlLower(SqlTrim(SqlLeft(CoalesceText(p_description), DescriptionPrefix))), <<"|">>,
        SqlLower(SqlTrim(CoalesceText(p_department))), <<"|">>,
        CoalesceText(p_source_url), <<"|">>,
        SqlTrim(CoalesceText(p_deadline)), <<"|">>,
        SqlTrim(CoalesceText(p_funding_amount)) >>)]

\* generate_opportunity_content_hash: encode(sha256(CONCAT(...)), 'hex').  sha256 is
\* modelled as an injective function of the text it digests.
generate_opportunity_content_hash(p_title, p_description, p_department, p_source_url, p_deadline, p_funding_amount) ==
    [sha256 |-> ConcatAll(<<
        SqlLower(SqlTrim(CoalesceText(p_title))), <<"|">>,
        SqlLower(SqlTrim(SqlLeft(CoalesceText(p_description), DescriptionPrefix))), <<"|">>,
        SqlLower(SqlTrim(CoalesceText(p_department))), <<"|">>,
        CoalesceText(p_source_url), <<"|">>,
        SqlTrim(CoalesceText(p_deadline)), <<"|">>,
        SqlTrim(CoalesceText(p_funding_amount)) >>)]

HttpPrefix == <<"h", "t", "t", "p", ":", "/", "/">>
HttpsPrefix == <<"h", "t", "t", "p", "s", ":", "/", "/">>

StartsWith(s, p) == Len(s) >= Len(p) /\ SubSeq(s, 1, Len(p)) = p

RECURSIVE UpToSlash(_)
UpToSlash(s) == IF s = <<>> \/ Head(s) = "/" THEN <<>> ELSE <<Head(s)>> \o UpToSlash(Tail(s))

\* substring(url from '^https?://([^/]+)'): the host, or Null when the pattern does not match
UrlHost(url) ==
    LET rest == IF StartsWith(url, HttpsPrefix) THEN SubSeq(url, Len(HttpsPrefix) + 1, Len(url))
                ELSE IF StartsWith(url, HttpPrefix) THEN SubSeq(url, Len(HttpPrefix) + 1, Len(url))
                ELSE <<>>
    IN  IF UpToSlash(rest) = <<>> THEN Null ELSE Text(UpToSlash(rest))

\* generate_similarity_group_id: LEFT(encode(digest(CONCAT(...), 'md5'), 'hex'), 16).  The
\* truncated digest is modelled as a function of the text it digests.
generate_similarity_group_id(p_title, p_department, p_source_url) ==
    LET domain == IF ~IsNull(p_source_url) /\ ~IsNull(UrlHost(p_source_url.text))
                  THEN SqlLower(UrlHost(p_source_url.text).text)
                  ELSE SqlLeft(CoalesceText(p_source_url), DomainFallbackPrefix)
    IN  [md5 |-> GroupIdLength,
         of |-> ConcatAll(<<
            SqlLeft(SqlLower(SqlTrim(CoalesceText(p_title))), TitlePrefix), <<"|">>,
            SqlLower(SqlTrim(CoalesceText(p_department))), <<"|">>,
            domain >>)]

(***************************************************************************)
(* supabase_complete_fresh_migration.sql                                   *)
(*                                                                         *)
(* db.cols is the set of tracking columns the table has; db.rows is the    *)
(* table in id order (row i has id i).  A tracking field of a row is Null  *)
(* while its column does not exist.  Steps 2, 3, 7, 8 and 9 (indexes,      *)
(* functions, views, grants, notices) change no row and are not steps of   *)
(* the model.                                                              *)
(***************************************************************************)
batch_size == 100
MaxBatches == 2
MaxRuns == 2

TrackCols == {"content_hash", "first_seen_at", "last_seen_at", "last_updated_at",
              "status", "consecutive_missing_count", "similarity_group_id"}

\* CURRENT_TIMESTAMP of the run in progress
Now == [ts |-> "now", run |-> mig.run]

\* The DEFAULT of each column added by Step 1 (ALTER TABLE ... ADD COLUMN fills the
\* existing rows with it)
ColumnDefault(c) ==
    CASE c = "content_hash" -> Null
      [] c = "first_seen_at" -> Now
      [] c = "last_seen_at" -> Now
      [] c = "last_updated_at" -> Now
      [] c = "status" -> Str("active")
      [] c = "consecutive_missing_count" -> Num(0)
      [] c = "similarity_group_id" -> Null

\* Step 1: each tracking column is added only if it is missing
AddMissingColumns(rows, cols) ==
    [i \in 1..Len(rows) |->
        [f \in DOMAIN rows[i] |->
            IF f \in TrackCols \ cols THEN ColumnDefault(f) ELSE rows[i][f]]]

NeedsTracking(row) ==
    IsNull(row.first_seen_at) \/ IsNull(row.last_seen_at) \/ IsNull(row.status)

NeedsHash(row) == IsNull(row.content_hash)

NeedsGroup(row) == IsNull(row.similarity_group_id)

\* The WHERE clause of each batched step
Needs(step, row) ==
    CASE step = "step4" -> NeedsTracking(row)
      [] step = "step5" -> NeedsHash(row)
      [] step = "step6" -> NeedsGroup(row)

\* The ids selected by
\*   SELECT id FROM opportunities WHERE <Needs> ORDER BY id LIMIT batch_size OFFSET processed
BatchIds(rows, step, processed) ==
    LET matching == {i \in 1..Len(rows) : Needs(step, rows[i])}
        rank(i) == Cardinality({j \in matching : j <= i})
    IN  {i \in matching : rank(i) > processed /\ rank(i) <= processed + batch_size}

CountWhere(rows, step) == Cardinality({i \in 1..Len(rows) : Needs(step, rows[i])})

\* A variant of Step 4's SET list that overwrites instead of COALESCE-ing (the SET list of
\* the older migration script)
Step4SetOverwrite(row) ==
    [row EXCEPT
        !.first_seen_at = Coalesce2(row.scraped_at, Now),
        !.last_seen_at = Coalesce2(row.scraped_at, Now),
        !.last_updated_at = Coalesce2(row.scraped_at, Now),
        !.status = IF row.is_active = Bool(TRUE) THEN Str("active") ELSE Str("removed"),
        !.consecutive_missing_count = Num(0)]

\* The SET list of Step 4's UPDATE
Step4Set(row) ==
    [row EXCEPT
        !.first_seen_at = Coalesce3(row.first_seen_at, row.scraped_at, Now),
        !.last_seen_at = Coalesce3(row.last_seen_at, row.scraped_at, Now),
        !.last_updated_at = Coalesce3(row.last_updated_at, row.scraped_at, Now),
        !.status = Coalesce2(row.status,
                             IF row.is_active = Bool(TRUE) THEN Str("active") ELSE Str("removed")),
        !.consecutive_missing_count = Coalesce2(row.consecutive_missing_count, Num(0))]

\* The SET list of Step 5's UPDATE
Step5Set(row) ==
    [row EXCEPT !.content_hash =
        generate_opportunity_content_hash(row.title, row.description, row.department,
                                          row.source_url, row.deadline, row.funding_amount)]

\* The SET list of Step 6's UPDATE
Step6Set(row) ==
    [row EXCEPT !.similarity_group_id =
        generate_similarity_group_id(row.title, row.department, row.source_url)]

\* UPDATE opportunities SET <Set> WHERE id IN (<BatchIds>)
\* The SET list of each batched step
SetOf(step, row) ==
    CASE step = "step4" -> Step4Set(row)
      [] step = "step5" -> Step5Set(row)
      [] step = "step6" -> Step6Set(row)

UpdateBatch(rows, step, processed) ==
    LET ids == BatchIds(rows, step, processed)
    IN  [i \in 1..Len(rows) |-> IF i \in ids THEN SetOf(step, rows[i]) ELSE rows[i]]

\* The other parts of the repository take no step while the script runs
MigFrame == UNCHANGED <<apiVars, enhancedVars, simpleVars>>

Step1_AddColumns ==
    /\ mig.pc = "step1"
    /\ MigFrame
    /\ db' = [cols |-> TrackCols, rows |-> AddMissingColumns(db.rows, db.cols)]
    /\ mig' = [mig EXCEPT !.pc = "step4"]

\* DECLARE and the counts before the WHILE loop of a batched step; mig.total_rows is the
\* loop's bound (rows_to_update in Step 4, total_rows in Steps 5 and 6)
BeginLoop(step, loop, next) ==
    LET n == CountWhere(db.rows, step)
    IN  /\ mig' = [mig EXCEPT !.processed = 0, !.total_rows = n,
                              !.pc = IF n > 0 THEN loop ELSE next]
        /\ UNCHANGED db
        /\ MigFrame

\* One iteration of the WHILE processed < total_rows loop, and the loop's exit test
LoopBatch(step, next) ==
    /\ mig.processed < mig.total_rows
    /\ db' = [db EXCEPT !.rows = UpdateBatch(db.rows, step, mig.processed)]
    /\ mig' = [mig EXCEPT !.processed = mig.processed + batch_size,
                          !.pc = IF mig.processed + batch_size < mig.total_rows
                                 THEN mig.pc ELSE next]
    /\ MigFrame

Step4_Begin == mig.pc = "step4" /\ BeginLoop("step4", "step4_loop", "step5")
Step4_Batch == mig.pc = "step4_loop" /\ LoopBatch("step4", "step5")
Step5_Begin == mig.pc = "step5" /\ BeginLoop("step5", "step5_loop", "step6")
Step5_Batch == mig.pc = "step5_loop" /\ LoopBatch("step5", "step6")
Step6_Begin == mig.pc = "step6" /\ BeginLoop("step6", "step6_loop", "done")
Step6_Batch == mig.pc = "step6_loop" /\ LoopBatch("step6", "done")

\* The script is run again on the database it left
RunAgain ==
    /\ mig.pc = "done"
    /\ mig.run < MaxRuns
    /\ mig' = [mig EXCEPT !.pc = "step1", !.run = mig.run + 1]
    /\ UNCHANGED db
    /\ MigFrame

(***************************************************************************)
(* The databases the script is run on.  RowCounts straddles the batch      *)
(* size; the rows alternate between two kinds chosen from RowKinds; the    *)
(* table has one of the column sets of ColumnSets.                         *)
(***************************************************************************)
RowCounts == {0, 1, batch_size, batch_size + 1, MaxBatches * batch_size + 1}

RowKinds == {"untracked", "tracked", "partial"}

ColumnSets == {{}, TrackCols, TrackCols \ {"status"}, {"content_hash", "similarity_group_id"}}

OldHash == [sha256 |-> <<"o", "l", "d">>]
OldGroup == [md5 |-> GroupIdLength, of |-> <<"o", "l", "d">>]
OldTime == [ts |-> "old", run |-> 0]
ScrapeTime == [ts |-> "scraped", run |-> 0]

\* The value a row of kind k has in tracking column c when the column exists
KindValue(k, c) ==
    CASE k = "untracked" -> Null
      [] k = "tracked" ->
            (CASE c = "content_hash" -> OldHash
               [] c = "similarity_group_id" -> OldGroup
               [] c = "status" -> Str("missing")
               [] c = "consecutive_missing_count" -> Num(2)
               [] OTHER -> OldTime)
      [] k = "partial" ->
            (CASE c = "last_seen_at" -> OldTime
               [] c = "status" -> Str("new")
               [] c = "similarity_group_id" -> OldGroup
               [] OTHER -> Null)

\* The content columns of row i (two sample listings, the second with NULLs)
SampleRow(i) ==
    IF i % 2 = 1
    THEN [title |-> Text(<<" ", "A", "b", " ">>), description |-> Text(<<"B", "a">>),
          department |-> Text(<<"X">>),
          source_url |-> Text(HttpsPrefix \o <<"X", ".", "b", "/", "a">>),
          deadline |-> Text(<<"a", " ">>), funding_amount |-> Null,
          scraped_at |-> ScrapeTime]
    ELSE [title |-> Text(<<"b">>), description |-> Null, department |-> Null,
          source_url |-> Null, deadline |-> Null, funding_amount |-> Text(<<"a">>),
          scraped_at |-> Null]

IsActiveOf(i) == CASE i % 3 = 1 -> Bool(TRUE) [] i % 3 = 2 -> Bool(FALSE) [] OTHER -> Null

InitialRow(i, k, cols) ==
    [f \in DOMAIN SampleRow(i) \cup {"is_active"} \cup TrackCols |->
        IF f \in TrackCols THEN (IF f \in cols THEN KindValue(k, f) ELSE Null)
        ELSE IF f = "is_active" THEN IsActiveOf(i)
        ELSE SampleRow(i)[f]]

MigInit ==
    \E n \in RowCounts, kOdd \in RowKinds, kEven \in RowKinds, cols \in ColumnSets :
        /\ db = [cols |-> cols,
                 rows |-> [i \in 1..n |-> InitialRow(i, IF i % 2 = 1 THEN kOdd ELSE kEven, cols)]]
        /\ mig = [pc |-> "step1", processed |-> 0, total_rows |-> 0, run |-> 1,
                  fresh |-> (cols = {})]

MigIdle == db = [cols |-> {}, rows |-> <<>>] /\
           mig = [pc |-> "idle", processed |-> 0, total_rows |-> 0, run |-> 0, fresh |-> FALSE]

MigNext ==
    \/ Step1_AddColumns
    \/ Step4_Begin
    \/ Step4_Batch
    \/ Step5_Begin
    \/ Step5_Batch
    \/ Step6_Begin
    \/ Step6_Batch
    \/ RunAgain

(***************************************************************************)
(* frontend/src/services/api.ts: ApiService                                *)
(*                                                                         *)
(* JavaScript values: Undefined, Null, Str, Num, Bool, Arr(sequence) and   *)
(* Obj(function from property names to values).  A property an object does *)
(* not have is not in the function's domain.  A call that throws returns   *)
(* Thrown.                                                                 *)
(***************************************************************************)
Undefined == [undefined |-> TRUE]
Arr(items) == [arr |-> items]
Obj(props) == [obj |-> props]
Thrown == [thrown |-> "TypeError"]

IsArray(v) == "arr" \in DOMAIN v
IsObject(v) == "obj" \in DOMAIN v
IsThrown(v) == "thrown" \in DOMAIN v

\* o.p
Get(o, p) == IF p \in DOMAIN o.obj THEN o.obj[p] ELSE Undefined

Truthy(v) == v \notin {Undefined, Null, Str(""), Num(0), Bool(FALSE)}

\* a || b
OrElse(a, b) == IF Truthy(a) THEN a ELSE b

\* { ...base, ...over }
Spread(base, over) ==
    [k \in DOMAIN base \cup DOMAIN over |-> IF k \in DOMAIN over THEN over[k] ELSE base[k]]

\* A variant of transformOpportunity that defaults tags with || instead of Array.isArray
transformOpportunityOrDefault(backendOpp) ==
    IF ~IsObject(backendOpp) THEN Thrown
    ELSE Obj(Spread(backendOpp.obj,
            [category |-> OrElse(Get(backendOpp, "opportunity_type"), Get(backendOpp, "category")),
             url |-> OrElse(Get(backendOpp, "application_url"),
                            OrElse(Get(backendOpp, "source_url"), Get(backendOpp, "url"))),
             tags |-> OrElse(Get(backendOpp, "tags"), Arr(<<>>)),
             created_at |-> OrElse(Get(backendOpp, "created_at"), Get(backendOpp, "scraped_at")),
             updated_at |-> OrElse(Get(backendOpp, "updated_at"), Get(backendOpp, "scraped_at"))]))

\* transformOpportunity.  The backend value is an object, null or undefined; reading a
\* property of null or undefined throws
transformOpportunity(backendOpp) ==
    IF ~IsObject(backendOpp) THEN Thrown
    ELSE Obj(Spread(backendOpp.obj,
            [category |-> OrElse(Get(backendOpp, "opportunity_type"), Get(backendOpp, "category")),
             url |-> OrElse(Get(backendOpp, "application_url"),
                            OrElse(Get(backendOpp, "source_url"), Get(backendOpp, "url"))),
             tags |-> IF IsArray(Get(backendOpp, "tags")) THEN Get(backendOpp, "tags") ELSE Arr(<<>>),
             created_at |-> OrElse(Get(backendOpp, "created_at"), Get(backendOpp, "scraped_at")),
             updated_at |-> OrElse(Get(backendOpp, "updated_at"), Get(backendOpp, "scraped_at"))]))

\* transformOpportunities: opportunities.map(...); throws when the value has no map
\* method or when the transformation of an element throws
transformOpportunities(opportunities) ==
    IF ~IsArray(opportunities) THEN Thrown
    ELSE LET out == [i \in 1..Len(opportunities.arr) |-> transformOpportunity(opportunities.arr[i])]
         IN  IF \E i \in 1..Len(out) : IsThrown(out[i]) THEN Thrown ELSE Arr(out)

\* A variant of getOpportunities whose array branch hands the records on as they came
getOpportunitiesRawArray(data) ==
    IF IsArray(data)
    THEN Obj([opportunities |-> data, total |-> Num(Len(data.arr)),
              skip |-> Num(0), limit |-> Num(Len(data.arr))])
    ELSE IF ~IsObject(data) THEN Thrown
    ELSE LET opps == transformOpportunities(OrElse(Get(data, "opportunities"), Arr(<<>>)))
         IN  IF IsThrown(opps) THEN Thrown ELSE Obj(Spread(data.obj, [opportunities |-> opps]))

\* getOpportunities, from response.data (an array, an object, null or undefined) to the
\* value returned
getOpportunities(data) ==
    IF IsArray(data)
    THEN LET opps == transformOpportunities(data)
         IN  IF IsThrown(opps) THEN Thrown
             ELSE Obj([opportunities |-> opps, total |-> Num(Len(data.arr)),
                       skip |-> Num(0), limit |-> Num(Len(data.arr))])
    ELSE IF ~IsObject(data) THEN Thrown
    ELSE LET opps == transformOpportunities(OrElse(Get(data, "opportunities"), Arr(<<>>)))
         IN  IF IsThrown(opps) THEN Thrown ELSE Obj(Spread(data.obj, [opportunities |-> opps]))

\* getOpportunity, createOpportunity and updateOpportunity, from response.data on
getOpportunity(data) == transformOpportunity(data)
createOpportunity(data) == transformOpportunity(data)
updateOpportunity(data) == transformOpportunity(data)

\* The URLSearchParams llmSearch builds from its request, as the list of its pairs
llmSearchParams(request) ==
    <<<<"query", Get(request, "query").str>>>>
    \o (IF Truthy(Get(request, "limit")) THEN <<<<"limit", ToString(Get(request, "limit").num)>>>> ELSE <<>>)
    \o (IF Get(request, "include_inactive") # Undefined THEN <<<<"use_vector_search", "false">>>> ELSE <<>>)

\* The HTTP request llmSearch sends
llmSearchRequest(request) ==
    [method |-> "POST", path |-> "/api/opportunities/search/llm", query |-> llmSearchParams(request)]

\* llmSearch, from the request and response.data to the value returned
llmSearch(request, backendData) ==
    IF ~IsObject(backendData) THEN Thrown
    ELSE LET opps == transformOpportunities(OrElse(Get(backendData, "results"), Arr(<<>>)))
         IN  IF IsThrown(opps) THEN Thrown
             ELSE Obj([opportunities |-> opps,
                       total_found |-> OrElse(Get(backendData, "total_found"), Num(0)),
                       ai_explanation |-> OrElse(Get(backendData, "ai_explanation"),
                                                 Str("AI analysis completed")),
                       search_query |-> OrElse(Get(backendData, "query"), Get(request, "query")),
                       processing_time |-> OrElse(Get(backendData, "processing_time"), Num(0))])

\* searchAllPages, from response.data to the value returned
searchAllPages(data) ==
    IF ~IsObject(data) THEN Thrown
    ELSE LET opps == transformOpportunities(OrElse(Get(data, "opportunities"), Arr(<<>>)))
         IN  IF IsThrown(opps) THEN Thrown ELSE Obj(Spread(data.obj, [opportunities |-> opps]))

(***************************************************************************)
(* The calls made to ApiService.  api.call is the last call: its method,   *)
(* its argument, the backend's response.data and the value returned;       *)
(* api.llmLog holds the argument and the HTTP request of the last two      *)
(* llmSearch calls.  One call is made at a time.                           *)
(***************************************************************************)
MaxRecords == 2

TypedBase == [id |-> Num(1), title |-> Str("t"), opportunity_type |-> Str("Research"),
              application_url |-> Str("a"), scraped_at |-> Str("s")]
LegacyBase == [id |-> Num(2), title |-> Str("t"), category |-> Str("Intern"),
               url |-> Str("u"), created_at |-> Str("c"), updated_at |-> Str("d")]

\* The values the backend may send as a record's tags (Undefined: no tags property)
TagValues == {Undefined, Null, Str("ai,ml"), Arr(<<>>), Arr(<<Str("ai")>>)}

BackendRecord(t) ==
    LET base == IF t \in {Undefined, Str("ai,ml"), Arr(<<Str("ai")>>)} THEN TypedBase ELSE LegacyBase
    IN  Obj(IF t = Undefined THEN base ELSE Spread(base, [tags |-> t]))

BackendRecords == {BackendRecord(t) : t \in TagValues}

RECURSIVE SeqsUpTo(_, _)
SeqsUpTo(S, n) ==
    IF n = 0 THEN {<<>>}
    ELSE SeqsUpTo(S, n - 1) \cup {Append(q, x) : q \in {r \in SeqsUpTo(S, n - 1) : Len(r) = n - 1}, x \in S}

\* Arrays of records, a null element among them
RecordArrays == {Arr(q) : q \in SeqsUpTo(BackendRecords \cup {Null}, MaxRecords)}
ShortRecordArrays == {Arr(q) : q \in SeqsUpTo(BackendRecords \cup {Null}, 1)}

Paging == {[total |-> Num(7), skip |-> Num(5), limit |-> Num(2)], [message |-> Str("ok")]}

\* response.data of GET /api/opportunities and of POST .../search/all-pages
ListResponses ==
    RecordArrays \cup {Null}
    \cup {Obj(pg) : pg \in Paging}
    \cup {Obj(Spread(pg, [opportunities |-> o])) :
            pg \in Paging, o \in RecordArrays \cup {Null, Str("none")}}

AllPagesResponses ==
    {Null} \cup {Obj([total_found |-> Num(1)])}
    \cup {Obj([total_found |-> Num(1), opportunities |-> o]) : o \in ShortRecordArrays}

LlmRequests ==
    {Obj(Spread(Spread([query |-> Str("ml")], l), a)) :
        l \in {<<>>, [limit |-> Num(0)], [limit |-> Num(50)]},
        a \in {<<>>, [include_inactive |-> Bool(TRUE)], [include_inactive |-> Bool(FALSE)]}}

LlmResponses ==
    {Null} \cup {Obj([total_found |-> Num(1)])}
    \cup {Obj([query |-> Str("ml"), results |-> o]) : o \in ShortRecordArrays}

NoCall == [method |-> "none"]

ApiFrame == UNCHANGED <<migVars, enhancedVars, simpleVars>>

ApiInit == api = [call |-> NoCall, llmLog |-> <<>>]

ApiIdle == ApiInit

LastTwo(q) == IF Len(q) <= 2 THEN q ELSE SubSeq(q, Len(q) - 1, Len(q))

CallGetOpportunities ==
    /\ api.call = NoCall
    /\ \E data \in ListResponses :
        /\ api' = [api EXCEPT !.call = [method |-> "getOpportunities", data |-> data,
                                        result |-> getOpportunities(data)]]
        /\ ApiFrame

CallGetOpportunity ==
    /\ api.call = NoCall
    /\ \E data \in BackendRecords \cup {Null} :
        /\ api' = [api EXCEPT !.call = [method |-> "getOpportunity", data |-> data,
                                        result |-> getOpportunity(data)]]
        /\ ApiFrame

CallCreateOpportunity ==
    /\ api.call = NoCall
    /\ \E data \in BackendRecords \cup {Null} :
        /\ api' = [api EXCEPT !.call = [method |-> "createOpportunity", data |-> data,
                                        result |-> createOpportunity(data)]]
        /\ ApiFrame

CallUpdateOpportunity ==
    /\ api.call = NoCall
    /\ \E data \in BackendRecords \cup {Null} :
        /\ api' = [api EXCEPT !.call = [method |-> "updateOpportunity", data |-> data,
                                        result |-> updateOpportunity(data)]]
        /\ ApiFrame

CallLlmSearch ==
    /\ api.call = NoCall
    /\ \E request \in LlmRequests, data \in LlmResponses :
        /\ api' = [call |-> [method |-> "llmSearch", request |-> request, data |-> data,
                             result |-> llmSearch(request, data)],
                   llmLog |-> LastTwo(Append(api.llmLog,
                                 [request |-> request, sent |-> llmSearchRequest(request)]))]
        /\ ApiFrame

CallSearchAllPages ==
    /\ api.call = NoCall
    /\ \E data \in AllPagesResponses :
        /\ api' = [api EXCEPT !.call = [method |-> "searchAllPages", data |-> data,
                                        result |-> searchAllPages(data)]]
        /\ ApiFrame

\* The caller takes the value returned (or catches the exception)
TakeResult ==
    /\ api.call # NoCall
    /\ api' = [api EXCEPT !.call = NoCall]
    /\ ApiFrame

ApiNext ==
    \/ TakeResult
    \/ CallGetOpportunities
    \/ CallGetOpportunity
    \/ CallCreateOpportunity
    \/ CallUpdateOpportunity
    \/ CallLlmSearch
    \/ CallSearchAllPages

(***************************************************************************)
(* components/ResearchOpportunities.tsx (EnhancedResearchOpportunities)    *)
(* and components/EnhancedSearch.tsx                                       *)
(*                                                                         *)
(* ero and es hold the useState cells of the page and of the search panel. *)
(* A list of opportunities is the sequence of their ids.  A step is one    *)
(* event handler or one promise continuation together with the render and  *)
(* the effects React 18 runs after it (state updates are batched).  The    *)
(* user leaves sortBy, selectedCategory, the page's own includeInactive,   *)
(* the panel's category and deadline fields and the Data Scraping tab      *)
(* alone; the statistics cards (loadStats) are not modelled.               *)
(***************************************************************************)
MaxLoadsInFlight == 2
MaxSearchesInFlight == 2
EnhancedLimitCap == 10000
AiLimitCap == 1000
DefaultItemsPerPage == 20
DefaultLimit == 50

ItemsPerPageChoices == {20, 50}
BrowseTotals == {0, 45}
SearchSizes == {0, 25}
Queries == {"", "ml"}

CeilDiv(a, b) == (a + b - 1) \div b

IdRange(first, count) == [i \in 1..count |-> first + i - 1]

\* The page of a listing of `total` records the backend returns for skip and limit
BrowsePage(total, skip, limit) == IdRange(skip + 1, Max(0, Min(limit, total - skip)))

\* The n records a search returns (the records with an even id)
SearchHits(n) == [i \in 1..n |-> 2 * i]

NotShown == [shown |-> FALSE]
Shown(results) == [shown |-> TRUE, results |-> results]

FreeSlot(net, max) == CHOOSE k \in 1..(max + 1) : \A r \in net : r.slot # k

Loads(net) == {r \in net : r.kind = "load"}
Searches(net) == {r \in net : r.kind = "search"}

EnhancedFrame == UNCHANGED <<migVars, apiVars, simpleVars>>

EnhancedInit ==
    /\ ero = [opportunities |-> <<>>, loading |-> TRUE, searchLoading |-> FALSE, error |-> "",
              page |-> 1, itemsPerPage |-> DefaultItemsPerPage, totalItems |-> 0]
    /\ es = [activeTab |-> 0, searchQuery |-> "",
             limit |-> DefaultLimit, isSearching |-> FALSE, error |-> ""]
    /\ eNet = {[kind |-> "load", slot |-> 1, skip |-> 0, limit |-> DefaultItemsPerPage]}
    /\ eObs = NotShown

\* totalPages of the render
TotalPages(e) == CeilDiv(e.totalItems, e.itemsPerPage)

\* loadOpportunities as called with the cells of state e: setLoading(true), setError(null)
\* and the getOpportunities request
LoadRequest(e, net) ==
    [kind |-> "load", slot |-> FreeSlot(Loads(net), MaxLoadsInFlight),
     skip |-> (e.page - 1) * e.itemsPerPage, limit |-> e.itemsPerPage]

StartLoad(e) == [e EXCEPT !.loading = TRUE, !.error = ""]

\* useEffect(..., [loadOpportunities, loadStats]): loadOpportunities is a new callback,
\* and the effect runs, when page, itemsPerPage, sortBy, sortOrder, selectedCategory or
\* includeInactive changed. The sort, category and inactive cells act on the page as
\* itemsPerPage does (a change reloads) and are not kept.
ReloadNeeded(old, new) ==
    <<old.page, old.itemsPerPage>> # <<new.page, new.itemsPerPage>>

\* The page after its cells became `new`: the render and the effect
PageRendered(new, net, shown) ==
    IF ReloadNeeded(ero, new)
    THEN /\ Cardinality(Loads(net)) < MaxLoadsInFlight
         /\ ero' = StartLoad(new)
         /\ eNet' = net \cup {LoadRequest(new, net)}
         /\ eObs' = shown
    ELSE /\ ero' = new
         /\ eNet' = net
         /\ eObs' = shown

\* handleSearchResults
handleSearchResults(e, results) ==
    [e EXCEPT !.opportunities = results, !.totalItems = Len(results), !.page = 1]

\* Pagination onChange={(_, newPage) => setPage(newPage)}
PageChange ==
    /\ TotalPages(ero) > 1 /\ ~ero.searchLoading
    /\ \E newPage \in 1..TotalPages(ero) :
          PageRendered([ero EXCEPT !.page = newPage], eNet, NotShown)
    /\ UNCHANGED es
    /\ EnhancedFrame

\* Items per page: setItemsPerPage(Number(e.target.value)); setPage(1)
ItemsPerPageChange ==
    /\ \E n \in ItemsPerPageChoices :
          PageRendered([ero EXCEPT !.itemsPerPage = n, !.page = 1], eNet, NotShown)
    /\ UNCHANGED es
    /\ EnhancedFrame

\* handleRefresh (the button is disabled while loading || searchLoading)
handleRefresh ==
    /\ ~ero.loading /\ ~ero.searchLoading
    /\ Cardinality(Loads(eNet)) < MaxLoadsInFlight
    /\ ero' = StartLoad(ero)
    /\ eNet' = eNet \cup {LoadRequest(ero, eNet)}
    /\ eObs' = NotShown
    /\ UNCHANGED es
    /\ EnhancedFrame

\* loadOpportunities after its await: the try and finally blocks, or catch and finally
LoadSettled ==
    \E r \in Loads(eNet) :
        /\ \/ \E total \in BrowseTotals :
                ero' = [ero EXCEPT !.opportunities = BrowsePage(total, r.skip, r.limit),
                                   !.totalItems = total, !.loading = FALSE]
           \/ ero' = [ero EXCEPT !.error = "Failed to load opportunities. Please try again.",
                                 !.loading = FALSE]
        /\ eNet' = eNet \ {r}
        /\ eObs' = eObs
        /\ UNCHANGED es
        /\ EnhancedFrame

\* The synchronous part of handleEnhancedSearch, handleLLMSearch and handleAllPagesSearch:
\* setIsSearching(true); setError(null); onLoading(true); and the request
StartSearch(method, cap) ==
    /\ Cardinality(Searches(eNet)) < MaxSearchesInFlight
    /\ es' = [es EXCEPT !.isSearching = TRUE, !.error = ""]
    /\ ero' = [ero EXCEPT !.searchLoading = TRUE]
    /\ eNet' = eNet \cup {[kind |-> "search", slot |-> FreeSlot(Searches(eNet), MaxSearchesInFlight),
                           method |-> method,
                           limit |-> Min(es.limit, cap)]}
    /\ eObs' = NotShown
    /\ EnhancedFrame

\* Enhanced Search button (disabled={isSearching})
EnhancedSearchClick ==
    /\ es.activeTab = 0 /\ ~es.isSearching
    /\ StartSearch("getOpportunities", EnhancedLimitCap)

\* Enter in the Search Query field of the Enhanced tab: onKeyPress calls
\* handleEnhancedSearch, which tests nothing
EnhancedSearchEnter ==
    /\ es.activeTab = 0
    /\ StartSearch("getOpportunities", EnhancedLimitCap)

\* AI Search button (disabled={isSearching || !searchQuery.trim()}); the AI tab's field
\* has no Enter handler
LLMSearchClick ==
    /\ es.activeTab = 1 /\ ~es.isSearching /\ es.searchQuery # ""
    /\ StartSearch("llmSearch", AiLimitCap)

\* Search All Pages button (disabled={isSearching})
AllPagesSearchClick ==
    /\ es.activeTab = 2 /\ ~es.isSearching
    /\ StartSearch("searchAllPages", EnhancedLimitCap)

\* Enter in the Search Term field of the All-Pages tab: onKeyPress calls
\* handleAllPagesSearch, which tests nothing
AllPagesSearchEnter ==
    /\ es.activeTab = 2
    /\ StartSearch("searchAllPages", EnhancedLimitCap)

\* A search handler after its await: onResults(results.opportunities) in the try block,
\* or the catch block; then finally: setIsSearching(false); onLoading(false)
SearchSettled ==
    \E r \in Searches(eNet) :
        /\ es' = [es EXCEPT !.isSearching = FALSE]
        /\ \E n \in SearchSizes :
              /\ n <= r.limit
              /\ PageRendered([handleSearchResults(ero, SearchHits(n)) EXCEPT !.searchLoading = FALSE],
                              eNet \ {r}, Shown(SearchHits(n)))
        /\ EnhancedFrame

SearchFailed ==
    \E r \in Searches(eNet) :
        /\ es' = [es EXCEPT !.isSearching = FALSE, !.error = "search failed"]
        /\ ero' = [ero EXCEPT !.searchLoading = FALSE]
        /\ eNet' = eNet \ {r}
        /\ eObs' = eObs
        /\ EnhancedFrame

\* resetSearch (Clear Results): setSearchResults({}); setError(null); onResults([])
resetSearch ==
    /\ es' = [es EXCEPT !.error = ""]
    /\ PageRendered(handleSearchResults(ero, <<>>), eNet, NotShown)
    /\ EnhancedFrame

\* handleTabChange
handleTabChange ==
    /\ \E newValue \in 0..2 : es' = [es EXCEPT !.activeTab = newValue, !.error = ""]
    /\ eObs' = NotShown
    /\ UNCHANGED <<ero, eNet>>
    /\ EnhancedFrame

\* onChange of the query field: setSearchQuery(e.target.value)
SearchQueryChange ==
    /\ \E q \in Queries : es' = [es EXCEPT !.searchQuery = q]
    /\ eObs' = NotShown
    /\ UNCHANGED <<ero, eNet>>
    /\ EnhancedFrame

EnhancedNext ==
    \/ PageChange
    \/ ItemsPerPageChange
    \/ handleRefresh
    \/ LoadSettled
    \/ EnhancedSearchClick
    \/ EnhancedSearchEnter
    \/ LLMSearchClick
    \/ AllPagesSearchClick
    \/ AllPagesSearchEnter
    \/ SearchSettled
    \/ SearchFailed
    \/ resetSearch
    \/ handleTabChange
    \/ SearchQueryChange

EnhancedIdle ==
    /\ ero = [page |-> 0] /\ es = [activeTab |-> 0] /\ eNet = {} /\ eObs = [idle |-> TRUE]

(***************************************************************************)
(* SimpleResearchOpportunities: the page with one search field, an AI      *)
(* switch, a cooldown after an AI search, and client-side pagination of    *)
(* search results. The filters other than the search term (department,     *)
(* types, tags, deadlines) stay empty, so the test of lines 279-286 is the *)
(* test of the trimmed term. loadFilterOptions and loadStats write cells   *)
(* no handler below reads and are not kept.                                *)
(***************************************************************************)

MaxSimpleLoads == 2
MaxSimpleSearches == 2
itemsPerPage == 50
CooldownSeconds == 10

SimpleTotals == {0, 51}
SimpleSearchSizes == {0, 51}
Terms == {"", "ml"}

LoadCalls == {"getOpportunities", "getStats"}

\* allSearchResults.slice(startIndex, endIndex) of the pagination effect
Slice(list, page) ==
    LET startIndex == (page - 1) * itemsPerPage
        endIndex == Min(startIndex + itemsPerPage, Len(list))
    IN  IF startIndex >= endIndex THEN <<>> ELSE SubSeq(list, startIndex + 1, endIndex)

OtherEvent == [event |-> "other", page |-> 0, sent |-> {}]

SimpleFrame == UNCHANGED <<migVars, apiVars, enhancedVars>>

SimpleInit ==
    /\ simple = [opportunities |-> <<>>, loading |-> TRUE, isSearching |-> FALSE, cooldown |-> 0,
                 error |-> "", submittedSearchTerm |-> "", useAISearch |-> FALSE,
                 isGeneratingSummary |-> FALSE, llmSearchResult |-> "null",
                 currentPage |-> 1, totalItems |-> 0, totalPages |-> 0,
                 allSearchResults |-> <<>>, isSearchMode |-> FALSE, searchInput |-> ""]
    /\ sNet = {[kind |-> "load", slot |-> 1, skip |-> 0, resetPage |-> FALSE]}
    /\ sObs = OtherEvent

\* The component renders its controls: neither the spinner of `loading && currentPage === 1`
\* nor the Alert of `error` is returned
ControlsRendered(s) == ~(s.loading /\ s.currentPage = 1) /\ s.error = ""

\* The search field is an uncontrolled input behind searchInputRef: its text is lost
\* when a render returns the spinner or the Alert in place of the controls
Render(s) == IF ControlsRendered(s) THEN s ELSE [s EXCEPT !.searchInput = ""]

\* The requests of loadOpportunities(resetPage) called with currentPage = page
SimpleLoadRequest(page, resetPage, net) ==
    [kind |-> "load", slot |-> FreeSlot(Loads(net), MaxSimpleLoads),
     skip |-> ((IF resetPage THEN 1 ELSE page) - 1) * itemsPerPage, resetPage |-> resetPage]

\* The synchronous part of loadOpportunities: setLoading(true); setError(null)
SimpleStartLoad(s) == [s EXCEPT !.loading = TRUE, !.error = ""]

\* The pagination effect runs when one of [currentPage, isSearchMode, allSearchResults,
\* loadOpportunities] changed; `fresh` says that setAllSearchResults was given a new array
EffectRuns(old, new, fresh) ==
    fresh \/ old.currentPage # new.currentPage \/ old.isSearchMode # new.isSearchMode

\* The component after a handler or continuation left its cells as `new`, with the
\* requests `net` in flight and `sent` issued by the handler: the render and the
\* pagination effect
SimpleRendered(new, net, fresh, event, page, sent) ==
    IF EffectRuns(simple, new, fresh) /\ ~new.isSearchMode
    THEN /\ Cardinality(Loads(net)) < MaxSimpleLoads
         /\ simple' = Render(SimpleStartLoad(new))
         /\ sNet' = net \cup {SimpleLoadRequest(new.currentPage, FALSE, net)}
         /\ sObs' = [event |-> event, page |-> page, sent |-> sent \cup LoadCalls]
    ELSE /\ simple' = IF EffectRuns(simple, new, fresh)
                      THEN Render([new EXCEPT !.opportunities = Slice(new.allSearchResults, new.currentPage)])
                      ELSE Render(new)
         /\ sNet' = net
         /\ sObs' = [event |-> event, page |-> page, sent |-> sent]

\* A variant of the guard of handleSearch that lets every call through
SearchBlockedNever(s) == FALSE

\* if (isSearching || cooldown > 0) { return; }
SearchBlocked(s) == s.isSearching \/ s.cooldown > 0

\* handleSearch
handleSearch ==
    IF SearchBlocked(simple)
    THEN /\ UNCHANGED <<simple, sNet>>
         /\ sObs' = [event |-> "handleSearch", page |-> 0, sent |-> {}]
    ELSE IF simple.searchInput = ""
    THEN /\ Cardinality(Loads(sNet)) < MaxSimpleLoads
         /\ SimpleRendered(SimpleStartLoad([simple EXCEPT !.isSearchMode = FALSE,
                                                          !.allSearchResults = <<>>,
                                                          !.currentPage = 1]),
                           sNet \cup {SimpleLoadRequest(1, TRUE, sNet)},
                           TRUE, "handleSearch", 0, LoadCalls)
    ELSE /\ Cardinality(Searches(sNet)) < MaxSimpleSearches
         /\ simple' = [simple EXCEPT !.submittedSearchTerm = simple.searchInput,
                                     !.isSearching = TRUE, !.error = "",
                                     !.llmSearchResult = "null",
                                     !.isGeneratingSummary = simple.useAISearch \/ @]
         /\ sNet' = sNet \cup {[kind |-> "search",
                                slot |-> FreeSlot(Searches(sNet), MaxSimpleSearches),
                                wasAISearch |-> simple.useAISearch]}
         /\ sObs' = [event |-> "handleSearch", page |-> 0,
                     sent |-> {IF simple.useAISearch THEN "llmSearch" ELSE "getOpportunities"}]

\* Search button: onClick={handleSearch} disabled={isSearching || cooldown > 0}
SearchButtonClick ==
    /\ ControlsRendered(simple)
    /\ ~(simple.isSearching \/ simple.cooldown > 0)
    /\ handleSearch
    /\ SimpleFrame

\* Search field: onKeyPress, e.key === "Enter"
SearchEnterKey ==
    /\ ControlsRendered(simple)
    /\ handleSearch
    /\ SimpleFrame

\* The user edits the text of the search field
SearchInputChange ==
    /\ ControlsRendered(simple)
    /\ \E t \in Terms : simple' = [simple EXCEPT !.searchInput = t]
    /\ sObs' = OtherEvent
    /\ UNCHANGED sNet
    /\ SimpleFrame

\* Switch: setUseAISearch(e.target.checked)
UseAISearchChange ==
    /\ ControlsRendered(simple)
    /\ simple' = [simple EXCEPT !.useAISearch = ~@]
    /\ sObs' = OtherEvent
    /\ UNCHANGED sNet
    /\ SimpleFrame

\* handleClearSearch
handleClearSearch ==
    /\ ControlsRendered(simple)
    /\ Cardinality(Loads(sNet)) < MaxSimpleLoads
    /\ SimpleRendered(SimpleStartLoad([simple EXCEPT !.submittedSearchTerm = "",
                                                     !.useAISearch = FALSE,
                                                     !.currentPage = 1,
                                                     !.isSearchMode = FALSE,
                                                     !.allSearchResults = <<>>,
                                                     !.isGeneratingSummary = FALSE,
                                                     !.llmSearchResult = "null",
                                                     !.searchInput = ""]),
                      sNet \cup {SimpleLoadRequest(1, TRUE, sNet)},
                      TRUE, "other", 0, LoadCalls)
    /\ SimpleFrame

\* handlePageChange(_event, page): the Pagination is rendered when totalPages > 1 and
\* calls onChange for every page button, the current page's too
handlePageChange ==
    /\ ControlsRendered(simple)
    /\ simple.totalPages > 1
    /\ \E page \in 1..simple.totalPages :
          SimpleRendered([simple EXCEPT !.currentPage = page], sNet, FALSE,
                         "handlePageChange", page, {})
    /\ SimpleFrame

\* The interval of the cooldown: setCooldown(prev => prev <= 1 ? 0 : prev - 1)
CooldownTick ==
    /\ simple.cooldown > 0
    /\ simple' = [simple EXCEPT !.cooldown = IF @ <= 1 THEN 0 ELSE @ - 1]
    /\ sObs' = OtherEvent
    /\ UNCHANGED sNet
    /\ SimpleFrame

\* loadOpportunities after its await: the try and finally blocks
SimpleLoadSettled ==
    \E r \in Loads(sNet) : \E total \in SimpleTotals :
        /\ SimpleRendered([simple EXCEPT !.opportunities = BrowsePage(total, r.skip, itemsPerPage),
                                         !.totalItems = total,
                                         !.totalPages = CeilDiv(total, itemsPerPage),
                                         !.currentPage = IF r.resetPage THEN 1 ELSE @,
                                         !.loading = FALSE],
                          sNet \ {r}, FALSE, "other", 0, {})
        /\ SimpleFrame

\* loadOpportunities after its await: the catch and finally blocks
SimpleLoadFailed ==
    \E r \in Loads(sNet) :
        /\ SimpleRendered([simple EXCEPT !.error = "Failed to load opportunities. Please try again later.",
                                         !.opportunities = <<>>,
                                         !.loading = FALSE],
                          sNet \ {r}, FALSE, "other", 0, {})
        /\ SimpleFrame

\* finally of handleSearch: setIsSearching(false) and, after an AI search, setCooldown(10)
SearchFinally(s, r) ==
    [s EXCEPT !.isSearching = FALSE, !.cooldown = IF r.wasAISearch THEN CooldownSeconds ELSE @]

\* handleSearch after its await: the rest of the try block, and finally
SimpleSearchSettled ==
    \E r \in Searches(sNet) : \E n \in SimpleSearchSizes :
        /\ SimpleRendered(SearchFinally([simple EXCEPT !.isGeneratingSummary = IF r.wasAISearch THEN FALSE ELSE @,
                                                       !.llmSearchResult = IF r.wasAISearch THEN "result" ELSE @,
                                                       !.isSearchMode = TRUE,
                                                       !.allSearchResults = SearchHits(n),
                                                       !.totalItems = n,
                                                       !.totalPages = CeilDiv(n, itemsPerPage),
                                                       !.currentPage = 1,
                                                       !.opportunities = Slice(SearchHits(n), 1)], r),
                          sNet \ {r}, TRUE, "other", 0, {})
        /\ SimpleFrame

\* handleSearch after its await: the catch block, and finally
SimpleSearchFailed ==
    \E r \in Searches(sNet) :
        /\ SimpleRendered(SearchFinally([simple EXCEPT !.error = (IF r.wasAISearch THEN "AI" ELSE "Text") \o " search failed. Please try again.",
                                                       !.opportunities = <<>>,
                                                       !.totalItems = 0,
                                                       !.totalPages = 0,
                                                       !.isSearchMode = FALSE,
                                                       !.allSearchResults = <<>>,
                                                       !.isGeneratingSummary = FALSE,
                                                       !.llmSearchResult = "null"], r),
                          sNet \ {r}, TRUE, "other", 0, {})
        /\ SimpleFrame

SimpleNext ==
    \/ SearchButtonClick
    \/ SearchEnterKey
    \/ SearchInputChange
    \/ UseAISearchChange
    \/ handleClearSearch
    \/ handlePageChange
    \/ CooldownTick
    \/ SimpleLoadSettled
    \/ SimpleLoadFailed
    \/ SimpleSearchSettled
    \/ SimpleSearchFailed

SimpleIdle ==
    /\ simple = [currentPage |-> 0] /\ sNet = {} /\ sObs = [event |-> "idle"]


InitMigration == MigInit /\ ApiIdle /\ EnhancedIdle /\ SimpleIdle

SpecMigration == InitMigration /\ [][MigNext]_vars
InitApi == ApiInit /\ MigIdle /\ EnhancedIdle /\ SimpleIdle

SpecApi == InitApi /\ [][ApiNext]_vars
InitEnhanced == EnhancedInit /\ MigIdle /\ ApiIdle /\ SimpleIdle

SpecEnhanced == InitEnhanced /\ [][EnhancedNext]_vars
InitSimple == SimpleInit /\ MigIdle /\ ApiIdle /\ EnhancedIdle

SpecSimple == InitSimple /\ [][SimpleNext]_vars

(***************************************************************************)
(* Claims about the migration                                              *)
(***************************************************************************)
Step5Finished == mig.pc \in {"step6", "step6_loop", "done"}
Step6Finished == mig.pc = "done"

\* C4: when Step 5 has finished no row has a NULL content_hash, whatever the number of
\* rows that had one at the start (also more than the batch size of 100); and the same
\* for similarity_group_id when Step 6 has finished.
C4_NoNullLeftAfterBatches ==
    /\ Step5Finished => \A i \in 1..Len(db.rows) : ~IsNull(db.rows[i].content_hash)
    /\ Step6Finished => \A i \in 1..Len(db.rows) : ~IsNull(db.rows[i].similarity_group_id)

\* C5: after the script has completed on a table that had no tracking columns, every
\* row with is_active = true has status 'active' and every other row has status 'removed'.
C5_StatusFollowsIsActive ==
    (mig.fresh /\ mig.pc = "done") =>
        \A i \in 1..Len(db.rows) :
            db.rows[i].status =
                IF db.rows[i].is_active = Bool(TRUE) THEN Str("active") ELSE Str("removed")

\* C6: no step of any run of the script changes a tracking value that is not NULL, on
\* any database state (and no step adds or removes a row).
C6_NonNullValuesKept ==
    [][/\ Len(db'.rows) = Len(db.rows)
       /\ \A i \in 1..Len(db.rows) : \A c \in TrackCols :
            ~IsNull(db.rows[i][c]) => db'.rows[i][c] = db.rows[i][c]]_vars

\* C6 witness: a second run has completed on a table that holds values from before the
\* first run next to values the script filled in.
C6_Witness ==
    /\ mig.pc = "done" /\ mig.run = MaxRuns
    /\ \E i \in 1..Len(db.rows) : db.rows[i].content_hash = OldHash /\ db.rows[i].status = Str("missing")
    /\ \E j \in 1..Len(db.rows) :
          /\ db.rows[j].last_seen_at = OldTime /\ db.rows[j].status = Str("new")
          /\ db.rows[j].first_seen_at \notin {Null, OldTime}
          /\ db.rows[j].content_hash \notin {Null, OldHash}

(***************************************************************************)
(* Claims about ApiService                                                 *)
(***************************************************************************)
DifferOnlyInIncludeInactive(a, b) ==
    /\ Get(a, "query") = Get(b, "query")
    /\ Get(a, "limit") = Get(b, "limit")
    /\ {Get(a, "include_inactive"), Get(b, "include_inactive")} = {Bool(TRUE), Bool(FALSE)}

\* C8: two llmSearch calls that differ only in include_inactive = true versus
\* include_inactive = false send different requests.
C8_IncludeInactiveConveyed ==
    (Len(api.llmLog) = 2 /\ DifferOnlyInIncludeInactive(api.llmLog[1].request, api.llmLog[2].request))
        => api.llmLog[1].sent # api.llmLog[2].sent

Returned == api.call.method # "none" /\ ~IsThrown(api.call.result)

\* The opportunities a call returned, and the backend's records they were made from
ReturnedOpportunities ==
    IF api.call.method \in {"getOpportunity", "createOpportunity", "updateOpportunity"}
    THEN <<api.call.result>>
    ELSE Get(api.call.result, "opportunities").arr

BackendList(v) == IF IsArray(v) THEN v.arr ELSE <<>>

BackendOpportunities ==
    CASE api.call.method \in {"getOpportunity", "createOpportunity", "updateOpportunity"} ->
            <<api.call.data>>
      [] api.call.method = "llmSearch" -> BackendList(Get(api.call.data, "results"))
      [] api.call.method = "searchAllPages" -> BackendList(Get(api.call.data, "opportunities"))
      [] api.call.method = "getOpportunities" ->
            IF IsArray(api.call.data) THEN api.call.data.arr
            ELSE BackendList(Get(api.call.data, "opportunities"))

\* C9: every Opportunity returned by getOpportunities, getOpportunity, createOpportunity,
\* updateOpportunity, llmSearch and searchAllPages has a tags field that is an array, the
\* empty array when the backend value is missing or not an array.
C9_TagsAlwaysArray ==
    Returned =>
        /\ Len(ReturnedOpportunities) = Len(BackendOpportunities)
        /\ \A i \in 1..Len(ReturnedOpportunities) :
            /\ IsArray(Get(ReturnedOpportunities[i], "tags"))
            /\ ~IsArray(Get(BackendOpportunities[i], "tags"))
                    => Get(ReturnedOpportunities[i], "tags") = Arr(<<>>)

\* C9 witness: llmSearch returned a record whose backend tags were a string, with the
\* empty array as its tags.
C9_Witness ==
    /\ Returned /\ api.call.method = "llmSearch"
    /\ \E i \in 1..Len(ReturnedOpportunities) :
          /\ Get(BackendOpportunities[i], "tags") = Str("ai,ml")
          /\ Get(ReturnedOpportunities[i], "tags") = Arr(<<>>)

AllObjects(v) == IsArray(v) /\ \A i \in 1..Len(v.arr) : IsObject(v.arr[i])

\* C10: getOpportunities accepts both response shapes.  For a bare array of n records it
\* returns {opportunities: the n transformed records, total: n, skip: 0, limit: n}; for
\* an object it returns the object's total, skip and limit unchanged with the
\* opportunities transformed, or with an empty list when the object has no opportunities.
C10_BothResponseShapes ==
    api.call.method = "getOpportunities" =>
        LET data == api.call.data
            result == api.call.result
            n == Len(data.arr)
        IN  /\ AllObjects(data) =>
                  result = Obj([opportunities |-> Arr([i \in 1..n |-> transformOpportunity(data.arr[i])]),
                                total |-> Num(n), skip |-> Num(0), limit |-> Num(n)])
            /\ (IsObject(data) /\ AllObjects(Get(data, "opportunities"))) =>
                  /\ \A p \in {"total", "skip", "limit"} : Get(result, p) = Get(data, p)
                  /\ Get(result, "opportunities") =
                        Arr([i \in 1..Len(Get(data, "opportunities").arr) |->
                                transformOpportunity(Get(data, "opportunities").arr[i])])
            /\ (IsObject(data) /\ Get(data, "opportunities") = Undefined) =>
                  /\ \A p \in {"total", "skip", "limit"} : Get(result, p) = Get(data, p)
                  /\ Get(result, "opportunities") = Arr(<<>>)

\* C10 witness: a bare array of MaxRecords records came back as a page of that size.
C10_Witness ==
    /\ api.call.method = "getOpportunities"
    /\ AllObjects(api.call.data) /\ Len(api.call.data.arr) = MaxRecords
    /\ Get(api.call.result, "total") = Num(MaxRecords)
    /\ Len(Get(api.call.result, "opportunities").arr) = MaxRecords


(***************************************************************************)
(* Claims about the enhanced page                                          *)
(***************************************************************************)

\* C3: when EnhancedSearch delivers results through handleSearchResults while no load is
\* in flight, whatever page the user was on, the page shows exactly those results with
\* totalItems = results.length and page = 1, and no reload is started that would
\* replace them before the next user action.
C3_SearchResultsStayShown ==
    [][(Searches(eNet') # Searches(eNet) /\ eObs' # NotShown /\ Loads(eNet) = {}) =>
          /\ ero'.opportunities = eObs'.results
          /\ ero'.totalItems = Len(eObs'.results)
          /\ ero'.page = 1
          /\ ~ero'.loading
          /\ Loads(eNet') = {}]_vars

\* C7: at most one search request of EnhancedSearch is in flight at any time.
C7_OneSearchInFlight ==
    Cardinality(Searches(eNet)) <= 1

(***************************************************************************)
(* Claims about the simple page                                            *)
(***************************************************************************)

\* C1: while a search is in progress (isSearching) or the cooldown is above 0, a call of
\* handleSearch, by the Search button or by the Enter key, issues no backend request and
\* changes no cell of the component.
C1_BlockedSearchDoesNothing ==
    [][(sObs'.event = "handleSearch" /\ (simple.isSearching \/ simple.cooldown > 0)) =>
          /\ sObs'.sent = {}
          /\ sNet' = sNet
          /\ simple' = simple]_vars

\* handleSearch was called by the Enter key while a search was in flight, and did nothing
C1_Witness ==
    /\ sObs = [event |-> "handleSearch", page |-> 0, sent |-> {}]
    /\ simple.isSearching
    /\ Searches(sNet) # {}

\* C2: in search mode, after handlePageChange(p) the displayed opportunities are
\* allSearchResults[(p-1)*50 .. p*50) and the call issued no getOpportunities, getStats
\* or llmSearch request.
C2_PageChangeServedFromCache ==
    [][(sObs'.event = "handlePageChange" /\ simple.isSearchMode) =>
          /\ simple'.opportunities = Slice(simple.allSearchResults, sObs'.page)
          /\ sObs'.sent = {}]_vars

(***************************************************************************)
(* Full-text search: migrations/supabase_add_full_text_search.sql,         *)
(* backend/migrations/add_full_text_search.sql and the trigger section of  *)
(* the older tracking migration.  db is the opportunities table with its   *)
(* search_vector column and trigger, mig the position in a script.  The    *)
(* application writes between scripts, not between the statements of one.  *)
(* A text is a sequence of words.                                          *)
(***************************************************************************)

MaxFtsRows == 1
MaxScripts == 2

\* The 'english' configuration on the words of the model: lower case, stemming, and the
\* stop words, which yield no lexeme
EnglishLexeme == [w \in {"The", "Labs", "lab", "AI"} |-> CASE w = "The" -> "" [] w = "Labs" -> "lab" [] w = "lab" -> "lab" [] w = "AI" -> "ai"]

\* A tsvector: a set of lexemes with position and weight
TsVector(entries) == [tsvector |-> entries]

\* to_tsvector('english', doc): NULL for NULL; the positions count the stop words
to_tsvector(doc) ==
    IF IsNull(doc) THEN Null
    ELSE TsVector({[lexeme |-> EnglishLexeme[doc.text[i]], pos |-> i, weight |-> "D"] :
                      i \in {j \in 1..Len(doc.text) : EnglishLexeme[doc.text[j]] # ""}})

\* setweight(vector, weight)
setweight(v, weight) ==
    IF IsNull(v) THEN Null ELSE TsVector({[e EXCEPT !.weight = weight] : e \in v.tsvector})

MaxPos(entries) == IF entries = {} THEN 0 ELSE CHOOSE m \in {e.pos : e \in entries} : \A e \in entries : e.pos <= m

\* a || b: NULL when either is; the positions of b follow the last position of a
TsConcat(a, b) ==
    IF IsNull(a) \/ IsNull(b) THEN Null
    ELSE TsVector(a.tsvector \cup {[e EXCEPT !.pos = @ + MaxPos(a.tsvector)] : e \in b.tsvector})

\* COALESCE(column, '')
CoalesceEmpty(v) == IF IsNull(v) THEN Text(<<>>) ELSE v

\* array_to_string(COALESCE(tags, ARRAY[]::text[]), ' ')
TagsToString(tags) == IF IsNull(tags) THEN Text(<<>>) ELSE Text(ConcatAll(tags.arr))

\* A variant of the trigger function without COALESCE
search_vector_without_coalesce(new_row) ==
    TsConcat(TsConcat(TsConcat(TsConcat(TsConcat(
        setweight(to_tsvector(new_row.title), "A"),
        setweight(to_tsvector(new_row.description), "B")),
        setweight(to_tsvector(new_row.department), "C")),
        setweight(to_tsvector(new_row.opportunity_type), "C")),
        setweight(to_tsvector(new_row.eligibility_requirements), "D")),
        setweight(to_tsvector(TagsToString(new_row.tags)), "B"))

\* The expression of the UPDATE and of opportunities_search_vector_update()
search_vector_expression(new_row) ==
    TsConcat(TsConcat(TsConcat(TsConcat(TsConcat(
        setweight(to_tsvector(CoalesceEmpty(new_row.title)), "A"),
        setweight(to_tsvector(CoalesceEmpty(new_row.description)), "B")),
        setweight(to_tsvector(CoalesceEmpty(new_row.department)), "C")),
        setweight(to_tsvector(CoalesceEmpty(new_row.opportunity_type)), "C")),
        setweight(to_tsvector(CoalesceEmpty(new_row.eligibility_requirements)), "D")),
        setweight(to_tsvector(TagsToString(new_row.tags)), "B"))

\* opportunities_search_vector_update(): NEW.search_vector := ...; RETURN NEW
opportunities_search_vector_update(new_row) ==
    [new_row EXCEPT !.search_vector = search_vector_expression(new_row)]

\* BEFORE INSERT OR UPDATE ... FOR EACH ROW: the row a statement stores
Stored(new_row, table) == IF table.trigger THEN opportunities_search_vector_update(new_row) ELSE new_row

\* A statement on a table whose trigger exists while the column does not fails: the
\* function assigns a field NEW does not have
WriteFails(table) == table.trigger /\ ~table.search_vector_column

SearchColumns == {"title", "description", "department", "opportunity_type", "eligibility_requirements", "tags"}

\* The values an application write gives a column
ColumnValues(col) ==
    CASE col = "title" -> {Null, Text(<<"The", "Labs">>)}
      [] col = "description" -> {Null, Text(<<"lab">>)}
      [] col = "department" -> {Null, Text(<<"AI">>)}
      [] col = "opportunity_type" -> {Null, Text(<<"lab">>)}
      [] col = "eligibility_requirements" -> {Null, Text(<<"AI">>)}
      [] col = "tags" -> {Null, Arr(<< <<"AI">>, <<"Labs">> >>)}

\* The rows an INSERT of the application gives: it never names search_vector
InsertedRows ==
    {[title |-> t, description |-> Null, department |-> d, opportunity_type |-> Null,
      eligibility_requirements |-> Null, tags |-> g, search_vector |-> Null] :
        t \in ColumnValues("title"), d \in ColumnValues("department"), g \in ColumnValues("tags")}

FtsScripts == {"supabase_add_full_text_search", "add_full_text_search", "tracking_migration"}

FtsInit ==
    /\ db \in [rows : {<<>>}, search_vector_column : BOOLEAN, trigger : {FALSE}]
    /\ mig = [pc |-> "idle", script |-> "none", scripts |-> 0, ran |-> FALSE, written |-> FALSE]

\* INSERT INTO opportunities by the application
FtsInsert ==
    /\ mig.pc = "idle" /\ ~WriteFails(db)
    /\ Len(db.rows) < MaxFtsRows
    /\ \E r \in InsertedRows : db' = [db EXCEPT !.rows = Append(@, Stored(r, db))]
    /\ mig' = [mig EXCEPT !.written = TRUE]
    /\ MigFrame

\* UPDATE opportunities SET col = v by the application
FtsUpdate ==
    /\ mig.pc = "idle" /\ ~WriteFails(db)
    /\ \E i \in 1..Len(db.rows) : \E col \in SearchColumns : \E v \in ColumnValues(col) :
          db' = [db EXCEPT !.rows[i] = Stored([@ EXCEPT ![col] = v], db)]
    /\ mig' = [mig EXCEPT !.written = TRUE]
    /\ MigFrame

\* UPDATE opportunities SET search_vector = ... by hand, once the migration has run
FtsUpdateVector ==
    /\ mig.pc = "idle" /\ mig.ran /\ ~WriteFails(db)
    /\ \E i \in 1..Len(db.rows) : \E v \in {Null, TsVector({})} :
          db' = [db EXCEPT !.rows[i] = Stored([@ EXCEPT !.search_vector = v], db)]
    /\ mig' = [mig EXCEPT !.written = TRUE]
    /\ MigFrame

\* A script is started
FtsStartScript ==
    /\ mig.pc = "idle" /\ mig.scripts < MaxScripts
    /\ \E script \in FtsScripts :
          mig' = [mig EXCEPT !.script = script, !.written = FALSE,
                             !.pc = IF script = "tracking_migration" THEN "drop_trigger" ELSE "add_column"]
    /\ UNCHANGED db
    /\ MigFrame

\* DO $$ ... ALTER TABLE opportunities ADD COLUMN search_vector tsvector ... $$, and
\* CREATE INDEX IF NOT EXISTS
FtsAddColumn ==
    /\ mig.pc = "add_column"
    /\ db' = [db EXCEPT !.search_vector_column = TRUE]
    /\ mig' = [mig EXCEPT !.pc = "backfill"]
    /\ MigFrame

\* The WHERE of the UPDATE: search_vector IS NULL in the Supabase script, none in the other
BackfillSelects(script, row) ==
    script = "add_full_text_search" \/ IsNull(row.search_vector)

\* UPDATE opportunities SET search_vector = ... [WHERE search_vector IS NULL]
FtsBackfill ==
    /\ mig.pc = "backfill"
    /\ db' = [db EXCEPT !.rows = [i \in 1..Len(db.rows) |->
                 IF BackfillSelects(mig.script, db.rows[i])
                 THEN Stored([db.rows[i] EXCEPT !.search_vector = search_vector_expression(db.rows[i])], db)
                 ELSE db.rows[i]]]
    /\ mig' = [mig EXCEPT !.pc = "create_function"]
    /\ MigFrame

\* CREATE OR REPLACE FUNCTION opportunities_search_vector_update()
FtsCreateFunction ==
    /\ mig.pc = "create_function"
    /\ mig' = [mig EXCEPT !.pc = IF mig.script = "tracking_migration" THEN "create_trigger" ELSE "drop_trigger"]
    /\ UNCHANGED db
    /\ MigFrame

\* DROP TRIGGER IF EXISTS opportunities_search_vector_update
FtsDropTrigger ==
    /\ mig.pc = "drop_trigger"
    /\ db' = [db EXCEPT !.trigger = FALSE]
    /\ mig' = [mig EXCEPT !.pc = IF mig.script = "tracking_migration" THEN "create_function" ELSE "create_trigger"]
    /\ MigFrame

\* CREATE TRIGGER ... BEFORE INSERT OR UPDATE ... FOR EACH ROW; the script ends
FtsCreateTrigger ==
    /\ mig.pc = "create_trigger"
    /\ db' = [db EXCEPT !.trigger = TRUE]
    /\ mig' = [mig EXCEPT !.pc = "idle", !.scripts = @ + 1,
                          !.ran = @ \/ mig.script # "tracking_migration"]
    /\ MigFrame

FtsNext ==
    \/ FtsInsert
    \/ FtsUpdate
    \/ FtsUpdateVector
    \/ FtsStartScript
    \/ FtsAddColumn
    \/ FtsBackfill
    \/ FtsCreateFunction
    \/ FtsDropTrigger
    \/ FtsCreateTrigger

InitSearchVector == FtsInit /\ ApiIdle /\ EnhancedIdle /\ SimpleIdle

SpecSearchVector == InitSearchVector /\ [][FtsNext]_vars

\* The lexemes of a text with a weight, positions aside
WeightedLexemes(v, weight) ==
    IF IsNull(v) THEN {}
    ELSE {<<EnglishLexeme[v.text[i]], weight>> : i \in 1..Len(v.text)} \ {<<"", weight>>}

TagLexemes(tags) ==
    IF IsNull(tags) THEN {}
    ELSE UNION {WeightedLexemes(Text(tags.arr[k]), "B") : k \in 1..Len(tags.arr)}

LongDescription(tail) == Text([i \in 1..DescriptionPrefix |-> IF i = 1 THEN " " ELSE "x"] \o tail)

HashTitles == {Null, Text(<<"A", "b">>), Text(<<" ", "a", "B", " ">>)}
HashDescriptions == {Null, LongDescription(<<"a">>), LongDescription(<<"b", "b">>)}
HashDepartments == {Text(<<"B">>), Text(<<"b", " ">>)}
HashUrls == {Text(<<"X">>), Text(<<"x">>)}
HashDeadlines == {Text(<<"a">>), Text(<<" ", "a">>)}
HashFundings == {Null, Text(<<>>)}

HashInputs == [title : HashTitles, description : HashDescriptions, department : HashDepartments, source_url : HashUrls, deadline : HashDeadlines, funding_amount : HashFundings]

\* The call of Step 5 on a record
HashOf(r) == generate_opportunity_content_hash(r.title, r.description, r.department, r.source_url, r.deadline, r.funding_amount)

HashInit ==
    /\ db \in [first : HashInputs, second : HashInputs]
    /\ mig = [first_hash |-> Null, second_hash |-> Null]

HashFirst ==
    /\ IsNull(mig.first_hash)
    /\ mig' = [mig EXCEPT !.first_hash = HashOf(db.first)]
    /\ UNCHANGED db
    /\ MigFrame

HashSecond ==
    /\ IsNull(mig.second_hash)
    /\ mig' = [mig EXCEPT !.second_hash = HashOf(db.second)]
    /\ UNCHANGED db
    /\ MigFrame

HashNext ==
    \/ HashFirst
    \/ HashSecond

InitContentHash == HashInit /\ ApiIdle /\ EnhancedIdle /\ SimpleIdle

SpecContentHash == InitContentHash /\ [][HashNext]_vars

\* The normalised tuple of a record, NULL read as the empty string; whitespace is the
\* space character, which is what TRIM strips
Normalised(r) ==
    << SqlLower(SqlTrim(CoalesceText(r.title))),
       SqlLower(SqlTrim(SubSeq(CoalesceText(r.description), 1, Min(500, Len(CoalesceText(r.description)))))),
       SqlLower(SqlTrim(CoalesceText(r.department))),
       CoalesceText(r.source_url),
       SqlTrim(CoalesceText(r.deadline)),
       SqlTrim(CoalesceText(r.funding_amount)) >>

NaN == [nan |-> TRUE]

DigitValue == [c \in {"0", "1", "2", "5"} |-> CASE c = "0" -> 0 [] c = "1" -> 1 [] c = "2" -> 2 [] c = "5" -> 5]

RECURSIVE DigitsValue(_, _)
DigitsValue(s, acc) ==
    IF s = <<>> \/ Head(s) \notin DOMAIN DigitValue THEN acc
    ELSE DigitsValue(Tail(s), 10 * acc + DigitValue[Head(s)])

\* parseInt(string): leading spaces, a sign, then digits up to the first other
\* character; NaN when there is no digit
parseInt(string) ==
    LET t == LTrim(string)
        signed == t # <<>> /\ Head(t) \in {"-", "+"}
        digits == IF signed THEN Tail(t) ELSE t
    IN  IF digits = <<>> \/ Head(digits) \notin DOMAIN DigitValue THEN NaN
        ELSE Num((IF signed /\ Head(t) = "-" THEN -1 ELSE 1) * DigitsValue(digits, 0))

\* A variant of the onChange expression without Math.max(1, ...)
ResultLimitWithoutFloor(value, cap, fallback) ==
    Min(cap, IF parseInt(value) \in {NaN, Num(0)} THEN fallback ELSE parseInt(value).num)

\* Math.min(cap, Math.max(1, parseInt(e.target.value) || fallback))
ResultLimit(value, cap, fallback) ==
    Min(cap, Max(1, IF parseInt(value) \in {NaN, Num(0)} THEN fallback ELSE parseInt(value).num))

\* The cap and the fallback of the Result Limit field of each tab
FieldCap(tab) == CASE tab = 0 -> 10000 [] tab = 1 -> 1000 [] tab = 2 -> 10000
FieldFallback(tab) == CASE tab = 0 -> 50 [] tab = 1 -> 50 [] tab = 2 -> 1000

\* Texts of the field: empty, non-numeric, zero, negative, a fraction, above every cap
LimitTexts == {<<>>, <<"a">>, <<"0">>, <<"-", "5">>, <<"1", ".", "5">>, <<"2", "5", "0", "0", "0">>}

\* Result Limit onChange: setLimit(...)
LimitChange ==
    /\ \E value \in LimitTexts :
          es' = [es EXCEPT !.limit = ResultLimit(value, FieldCap(es.activeTab), FieldFallback(es.activeTab))]
    /\ eObs' = NotShown
    /\ UNCHANGED <<ero, eNet>>
    /\ EnhancedFrame

ResultLimitNext ==
    \/ LimitChange
    \/ handleTabChange
    \/ SearchQueryChange
    \/ EnhancedSearchClick
    \/ EnhancedSearchEnter
    \/ LLMSearchClick
    \/ AllPagesSearchClick
    \/ AllPagesSearchEnter
    \/ SearchSettled
    \/ SearchFailed
    \/ resetSearch
    \/ LoadSettled

SpecResultLimit == InitEnhanced /\ [][ResultLimitNext]_vars

\* C13: after any edits of the Result Limit fields, limit is an integer in 1..10000, and
\* every request in flight carries a limit of at most 10000 (Enhanced and All-Pages
\* search) or at most 1000 (AI search).
C13_LimitWithinBounds ==
    /\ es.limit \in 1..10000
    /\ \A r \in Searches(eNet) :
          r.limit \in 1..(IF r.method = "llmSearch" THEN 1000 ELSE 10000)

\* An AI search is in flight with limit 1000 while limit, set in another tab, is above it
C13_Witness ==
    /\ es.limit > 1000
    /\ \E r \in Searches(eNet) : r.method = "llmSearch" /\ r.limit = 1000
====
